---- MODULE Spec2Model ----
(***************************************************************************)
(* Model of Pipline.py: a batch pandas script that reads energy-meter      *)
(* measurements, coerces the column types, removes duplicate and empty     *)
(* rows, and derives hourly totals (with a peak feed-in flag per date) and *)
(* a per-serial summary.                                                   *)
(*                                                                         *)
(* A DataFrame is a sequence of rows; a row is a record with one field per *)
(* column plus `index`, the pandas index label.  Every cell is a sequence  *)
(* of length at most one: <<>> is the missing marker (NaN / NaT) and <<v>> *)
(* is the value v.  Floating-point values are modelled by small finite     *)
(* integers.                                                               *)
(***************************************************************************)
EXTENDS Integers, Sequences, FiniteSets

VARIABLES csv, df, hourly_totals, summary, pc

vars == <<csv, df, hourly_totals, summary, pc>>

\* Longest input file (number of data lines) explored.
MaxLen == 3

-----------------------------------------------------------------------------
(* Cells *)

NaN == <<>>

Some(v) == <<v>>

isna(cell) == cell = NaN

-----------------------------------------------------------------------------
(* The input file: lines of raw text cells *)

Line(s, t, d, gp, gf, dc) ==
    [serial |-> s, timestamp |-> t, date |-> d,
     grid_purchase |-> gp, grid_feedin |-> gf, direct_consumption |-> dc]

RawRows ==
    { Line("S1", "2024-01-01 05:00", "2024-01-01", "1",   "1",   "1"),
      Line("S1", "2024-01-01T05:00", "2024-01-01", "1.0", "1.0", "1"),
      Line("S2", "2024-01-01 06:00", "2024-01-01", "2",   "1",   ""),
      Line("S2", "2024-01-01 06:00", "2024-01-01", "1",   "2",   "x"),
      Line("S1", "2024-01-01 05:00", "2024-01-01", "",    "x",   ""),
      Line("S2", "2024-01-01 06:00", "2024-01-01", "x",   "",    "x"),
      Line("S1", "2024-01-01 05:00", "n/a",        "2",   "1",   "1"),
      Line("S2", "n/a",              "2024-01-01", "1",   "2",   ""),
      Line("",   "2024-01-01 05:00", "2024-01-01", "1",   "1",   "1"),
      Line("S3", "2024-01-02 05:00", "2024-01-02", "",    "2",   ""),
      Line("S3", "2024-01-01 05:00", "2024-01-01", "2",   "0",   "1"),
      Line("S1", "2024-01-01 06:00", "2024-01-01", "0",   "0",   "1"),
      Line("S2", "2024-01-02 05:00", "2024-01-01", "1",   "",    "1") }

Files == UNION { [1..n -> RawRows] : n \in 0..MaxLen }

-----------------------------------------------------------------------------
(* Library parsers *)

IsFloat(text) == text \in {"0", "1", "1.0", "2"}

float(text) ==
    CASE text = "0"   -> 0
      [] text = "1"   -> 1
      [] text = "1.0" -> 1
      [] text = "2"   -> 2

IsDatetime(text) ==
    text \in {"2024-01-01 05:00", "2024-01-01T05:00", "2024-01-01 06:00",
              "2024-01-02 05:00", "2024-01-01", "2024-01-02"}

datetime(text) ==
    CASE text = "2024-01-01 05:00" -> [day |-> 1, hour |-> 5]
      [] text = "2024-01-01T05:00" -> [day |-> 1, hour |-> 5]
      [] text = "2024-01-01 06:00" -> [day |-> 1, hour |-> 6]
      [] text = "2024-01-02 05:00" -> [day |-> 2, hour |-> 5]
      [] text = "2024-01-01"       -> [day |-> 1, hour |-> 0]
      [] text = "2024-01-02"       -> [day |-> 2, hour |-> 0]

\* read_csv turns an empty field into NaN and keeps any other text.
read_cell(text) == IF text = "" THEN NaN ELSE Some(text)

read_csv(file) ==
    [i \in DOMAIN file |->
        [index              |-> i - 1,
         serial             |-> read_cell(file[i].serial),
         timestamp          |-> read_cell(file[i].timestamp),
         date               |-> read_cell(file[i].date),
         grid_purchase      |-> read_cell(file[i].grid_purchase),
         grid_feedin        |-> read_cell(file[i].grid_feedin),
         direct_consumption |-> read_cell(file[i].direct_consumption)]]

\* pd.to_numeric(column, errors='coerce'), cell by cell
convert_to_numeric_zero(cell) ==
    IF isna(cell) THEN NaN
    ELSE IF IsFloat(cell[1]) THEN Some(float(cell[1])) ELSE Some(0)

convert_to_numeric(cell) ==
    IF isna(cell) THEN NaN
    ELSE IF IsFloat(cell[1]) THEN Some(float(cell[1])) ELSE NaN

\* pd.to_datetime(column, errors='coerce'), cell by cell
to_datetime(cell) ==
    IF isna(cell) THEN NaN
    ELSE IF IsDatetime(cell[1]) THEN Some(datetime(cell[1])) ELSE NaN

\* .dt.date
dt_date(cell) == IF isna(cell) THEN NaN ELSE Some(cell[1].day)

\* .dt.hour
dt_hour(cell) == IF isna(cell) THEN NaN ELSE Some(cell[1].hour)

-----------------------------------------------------------------------------
(* Row selection *)

RECURSIVE Mask(_, _, _)
\* frame[mask]: the rows at positions i..Len(frame) whose mask bit is set
Mask(frame, mask, i) ==
    IF i > Len(frame) THEN <<>>
    ELSE (IF mask[i] THEN <<frame[i]>> ELSE <<>>) \o Mask(frame, mask, i + 1)

\* Two rows agree on every column (NaN equals NaN, the index is not a column)
SameColumns(r, s) ==
    /\ r.serial = s.serial
    /\ r.timestamp = s.timestamp
    /\ r.date = s.date
    /\ r.grid_purchase = s.grid_purchase
    /\ r.grid_feedin = s.grid_feedin
    /\ r.direct_consumption = s.direct_consumption

duplicated_adjacent(frame) ==
    [i \in DOMAIN frame |-> i > 1 /\ SameColumns(frame[i - 1], frame[i])]

duplicated_last(frame) ==
    [i \in DOMAIN frame |->
        \E j \in (i + 1)..Len(frame) : SameColumns(frame[j], frame[i])]

\* DataFrame.duplicated(keep='first')
duplicated(frame) ==
    [i \in DOMAIN frame |->
        \E j \in 1..(i - 1) : SameColumns(frame[j], frame[i])]

drop_duplicates(frame) ==
    Mask(frame, [i \in DOMAIN frame |-> ~duplicated(frame)[i]], 1)

AllEnergyMissing(r) ==
    /\ isna(r.grid_purchase)
    /\ isna(r.grid_feedin)
    /\ isna(r.direct_consumption)

AnyEnergyMissing(r) ==
    \/ isna(r.grid_purchase)
    \/ isna(r.grid_feedin)
    \/ isna(r.direct_consumption)

dropna_any(frame) ==
    Mask(frame, [i \in DOMAIN frame |-> ~AnyEnergyMissing(frame[i])], 1)

dropna_first(frame) ==
    Mask(frame, [i \in DOMAIN frame |->
                    ~(/\ AllEnergyMissing(frame[i])
                      /\ \A j \in 1..(i - 1) : ~AllEnergyMissing(frame[j]))], 1)

\* dropna(subset=[the three energy columns], how='all')
dropna(frame) ==
    Mask(frame, [i \in DOMAIN frame |-> ~AllEnergyMissing(frame[i])], 1)

-----------------------------------------------------------------------------
(* Aggregation *)

RECURSIVE sum(_, _, _)
\* Series.sum() over the rows of frame at positions i.. : NaN is skipped
sum(frame, column, i) ==
    IF i > Len(frame) THEN 0
    ELSE (IF isna(frame[i][column]) THEN 0 ELSE frame[i][column][1])
         + sum(frame, column, i + 1)

\* groupby(["date", "hour"]) with the default dropna=True: a row whose key
\* has a missing component belongs to no group.
HourlyKeys(frame) ==
    { <<frame[i].date, frame[i].hour>> :
        i \in { j \in DOMAIN frame :
                  ~isna(frame[j].date) /\ ~isna(frame[j].hour) } }

KeyLeq(k, l) ==
    \/ k[1][1] < l[1][1]
    \/ k[1][1] = l[1][1] /\ k[2][1] <= l[2][1]

RECURSIVE SortedKeys(_)
\* groupby sorts the group keys ascending
SortedKeys(keys) ==
    IF keys = {} THEN <<>>
    ELSE LET k == CHOOSE m \in keys : \A l \in keys : KeyLeq(m, l)
         IN  <<k>> \o SortedKeys(keys \ {k})

HourlyGroup(frame, k) ==
    Mask(frame, [i \in DOMAIN frame |->
                    frame[i].date = k[1] /\ frame[i].hour = k[2]], 1)

groupby_date_hour_sum(frame) ==
    LET keys == SortedKeys(HourlyKeys(frame))
    IN  [n \in DOMAIN keys |->
            [date          |-> keys[n][1],
             hour          |-> keys[n][2],
             grid_purchase |-> Some(sum(HourlyGroup(frame, keys[n]), "grid_purchase", 1)),
             grid_feedin   |-> Some(sum(HourlyGroup(frame, keys[n]), "grid_feedin", 1))]]

\* x.max() over the buckets of one date
GroupMax(totals, date) ==
    CHOOSE m \in { totals[i].grid_feedin[1] :
                     i \in { j \in DOMAIN totals : totals[j].date = date } } :
        \A i \in DOMAIN totals :
            totals[i].date = date => totals[i].grid_feedin[1] <= m

peak_flag_first(totals, n) ==
    IF isna(totals[n].date) THEN NaN
    ELSE Some(/\ totals[n].grid_feedin[1] = GroupMax(totals, totals[n].date)
              /\ \A j \in 1..(n - 1) :
                    totals[j].date = totals[n].date
                        => totals[j].grid_feedin[1] < totals[n].grid_feedin[1])

\* groupby("date")["grid_feedin"].transform(lambda x: x == x.max()), row n
peak_flag(totals, n) ==
    IF isna(totals[n].date) THEN NaN
    ELSE Some(totals[n].grid_feedin[1] = GroupMax(totals, totals[n].date))

\* Lexicographic order of the serial texts
SerialRank(text) ==
    CASE text = "S1" -> 1
      [] text = "S2" -> 2
      [] text = "S3" -> 3

RECURSIVE SortedSerials(_)
SortedSerials(serials) ==
    IF serials = {} THEN <<>>
    ELSE LET s == CHOOSE m \in serials :
                     \A l \in serials : SerialRank(m[1]) <= SerialRank(l[1])
         IN  <<s>> \o SortedSerials(serials \ {s})

SerialGroup(frame, s) ==
    Mask(frame, [i \in DOMAIN frame |-> frame[i].serial = s], 1)

TimedRows(frame) ==
    Mask(frame, [i \in DOMAIN frame |->
                    ~isna(frame[i].date) /\ ~isna(frame[i].hour)], 1)

groupby_serial_sum_timed(frame) ==
    LET keys == SortedSerials({ frame[i].serial :
                    i \in { j \in DOMAIN frame : ~isna(frame[j].serial) } })
    IN  [n \in DOMAIN keys |->
            [serial        |-> keys[n],
             grid_purchase |-> Some(sum(SerialGroup(TimedRows(frame), keys[n]), "grid_purchase", 1)),
             grid_feedin   |-> Some(sum(SerialGroup(TimedRows(frame), keys[n]), "grid_feedin", 1))]]

\* groupby('serial')[[...]].sum(): default dropna=True, keys sorted ascending
groupby_serial_sum(frame) ==
    LET keys == SortedSerials({ frame[i].serial :
                    i \in { j \in DOMAIN frame : ~isna(frame[j].serial) } })
    IN  [n \in DOMAIN keys |->
            [serial        |-> keys[n],
             grid_purchase |-> Some(sum(SerialGroup(frame, keys[n]), "grid_purchase", 1)),
             grid_feedin   |-> Some(sum(SerialGroup(frame, keys[n]), "grid_feedin", 1))]]

Remove(frame, n) ==
    [i \in 1..(Len(frame) - 1) |-> IF i < n THEN frame[i] ELSE frame[i + 1]]

RECURSIVE sort_values_ascending(_)
sort_values_ascending(frame) ==
    IF frame = <<>> THEN <<>>
    ELSE LET n == CHOOSE m \in DOMAIN frame :
                     /\ \A j \in DOMAIN frame :
                           frame[j].grid_purchase[1] >= frame[m].grid_purchase[1]
                     /\ \A j \in 1..(m - 1) :
                           frame[j].grid_purchase[1] > frame[m].grid_purchase[1]
         IN  <<frame[n]>> \o sort_values_ascending(Remove(frame, n))

RECURSIVE sort_values(_)
\* sort_values(by='grid_purchase', ascending=False); equal totals keep their
\* relative order
sort_values(frame) ==
    IF frame = <<>> THEN <<>>
    ELSE LET n == CHOOSE m \in DOMAIN frame :
                     /\ \A j \in DOMAIN frame :
                           frame[j].grid_purchase[1] <= frame[m].grid_purchase[1]
                     /\ \A j \in 1..(m - 1) :
                           frame[j].grid_purchase[1] < frame[m].grid_purchase[1]
         IN  <<frame[n]>> \o sort_values(Remove(frame, n))

-----------------------------------------------------------------------------
(* The script, one action per statement *)

Init ==
    /\ csv \in Files
    /\ df = <<>>
    /\ hourly_totals = <<>>
    /\ summary = <<>>
    /\ pc = "read_csv"

ReadCsv ==
    /\ pc = "read_csv"
    /\ df' = read_csv(csv)
    /\ pc' = "grid_purchase"
    /\ UNCHANGED <<csv, hourly_totals, summary>>

ConvertGridPurchase ==
    /\ pc = "grid_purchase"
    /\ df' = [i \in DOMAIN df |->
                [df[i] EXCEPT !.grid_purchase = convert_to_numeric(@)]]
    /\ pc' = "grid_feedin"
    /\ UNCHANGED <<csv, hourly_totals, summary>>

ConvertGridFeedin ==
    /\ pc = "grid_feedin"
    /\ df' = [i \in DOMAIN df |->
                [df[i] EXCEPT !.grid_feedin = convert_to_numeric(@)]]
    /\ pc' = "direct_consumption"
    /\ UNCHANGED <<csv, hourly_totals, summary>>

ConvertDirectConsumption ==
    /\ pc = "direct_consumption"
    /\ df' = [i \in DOMAIN df |->
                [df[i] EXCEPT !.direct_consumption = convert_to_numeric(@)]]
    /\ pc' = "timestamp"
    /\ UNCHANGED <<csv, hourly_totals, summary>>

ConvertTimestamp ==
    /\ pc = "timestamp"
    /\ df' = [i \in DOMAIN df |->
                [df[i] EXCEPT !.timestamp = to_datetime(@)]]
    /\ pc' = "date"
    /\ UNCHANGED <<csv, hourly_totals, summary>>

ConvertDate ==
    /\ pc = "date"
    /\ df' = [i \in DOMAIN df |->
                [df[i] EXCEPT !.date = dt_date(to_datetime(@))]]
    /\ pc' = "drop_duplicates"
    /\ UNCHANGED <<csv, hourly_totals, summary>>

DropDuplicates ==
    /\ pc = "drop_duplicates"
    /\ df' = drop_duplicates(df)
    /\ pc' = "dropna"
    /\ UNCHANGED <<csv, hourly_totals, summary>>

DropNa ==
    /\ pc = "dropna"
    /\ df' = dropna(df)
    /\ pc' = "hour"
    /\ UNCHANGED <<csv, hourly_totals, summary>>

ExtractHour ==
    /\ pc = "hour"
    /\ df' = [i \in DOMAIN df |->
                [index              |-> df[i].index,
                 serial             |-> df[i].serial,
                 timestamp          |-> df[i].timestamp,
                 date               |-> df[i].date,
                 grid_purchase      |-> df[i].grid_purchase,
                 grid_feedin        |-> df[i].grid_feedin,
                 direct_consumption |-> df[i].direct_consumption,
                 hour               |-> dt_hour(df[i].timestamp)]]
    /\ pc' = "hourly_totals"
    /\ UNCHANGED <<csv, hourly_totals, summary>>

HourlyTotals ==
    /\ pc = "hourly_totals"
    /\ hourly_totals' = groupby_date_hour_sum(df)
    /\ pc' = "is_peak_feed_in_hour"
    /\ UNCHANGED <<csv, df, summary>>

PeakFlag ==
    /\ pc = "is_peak_feed_in_hour"
    /\ hourly_totals' =
          [n \in DOMAIN hourly_totals |->
              [date                 |-> hourly_totals[n].date,
               hour                 |-> hourly_totals[n].hour,
               grid_purchase        |-> hourly_totals[n].grid_purchase,
               grid_feedin          |-> hourly_totals[n].grid_feedin,
               is_peak_feed_in_hour |-> peak_flag(hourly_totals, n)]]
    /\ pc' = "summary"
    /\ UNCHANGED <<csv, df, summary>>

Summary ==
    /\ pc = "summary"
    /\ summary' = sort_values(groupby_serial_sum(df))
    /\ pc' = "to_csv"
    /\ UNCHANGED <<csv, df, hourly_totals>>

Next ==
    \/ ReadCsv
    \/ ConvertGridPurchase
    \/ ConvertGridFeedin
    \/ ConvertDirectConsumption
    \/ ConvertTimestamp
    \/ ConvertDate
    \/ DropDuplicates
    \/ DropNa
    \/ ExtractHour
    \/ HourlyTotals
    \/ PeakFlag
    \/ Summary

Spec == Init /\ [][Next]_vars

-----------------------------------------------------------------------------
(* Derived views used by the properties *)

\* The frame after the type conversions, as a function of the input file
Normalized(file) ==
    [i \in DOMAIN file |->
        [index              |-> read_csv(file)[i].index,
         serial             |-> read_csv(file)[i].serial,
         timestamp          |-> to_datetime(read_csv(file)[i].timestamp),
         date               |-> dt_date(to_datetime(read_csv(file)[i].date)),
         grid_purchase      |-> convert_to_numeric(read_csv(file)[i].grid_purchase),
         grid_feedin        |-> convert_to_numeric(read_csv(file)[i].grid_feedin),
         direct_consumption |-> convert_to_numeric(read_csv(file)[i].direct_consumption)]]

Cleaned == {"hour", "hourly_totals", "is_peak_feed_in_hour", "summary", "to_csv"}

Aggregated == {"is_peak_feed_in_hour", "summary", "to_csv"}

Flagged == {"summary", "to_csv"}

RECURSIVE SumOver(_, _)
\* Sum of a column of df over a set of row positions, missing counted as zero
SumOver(positions, column) ==
    IF positions = {} THEN 0
    ELSE LET i == CHOOSE p \in positions : TRUE
         IN  (IF df[i][column] = NaN THEN 0 ELSE df[i][column][1])
             + SumOver(positions \ {i}, column)

BucketRows(b) ==
    { i \in DOMAIN df : df[i].date = b.date /\ df[i].hour = b.hour }

SerialRows(s) == { i \in DOMAIN df : df[i].serial = s }

-----------------------------------------------------------------------------
(* Properties *)

\* C1: every Clean Record is covered by an Hourly Bucket whose key equals the
\* record's (date, hour); a record whose date or hour is missing is covered
\* by a bucket keyed by the missing marker.
C1_MissingKeyBucketed ==
    pc \in Aggregated =>
        \A i \in DOMAIN df :
            \E n \in DOMAIN hourly_totals :
                /\ hourly_totals[n].date = df[i].date
                /\ hourly_totals[n].hour = df[i].hour

\* C2: a bucket is flagged is_peak_feed_in_hour exactly when its grid_feedin
\* total equals the maximum grid_feedin total over the buckets of its date;
\* hence every date has a flagged bucket and all tied buckets are flagged.
C2_PeakFlagCorrect ==
    pc \in Flagged =>
        /\ \A n \in DOMAIN hourly_totals :
              hourly_totals[n].is_peak_feed_in_hour = Some(TRUE)
              <=> \A m \in DOMAIN hourly_totals :
                     hourly_totals[m].date = hourly_totals[n].date
                       => hourly_totals[m].grid_feedin[1]
                            <= hourly_totals[n].grid_feedin[1]
        /\ \A n \in DOMAIN hourly_totals :
              \E m \in DOMAIN hourly_totals :
                 /\ hourly_totals[m].date = hourly_totals[n].date
                 /\ hourly_totals[m].is_peak_feed_in_hour = Some(TRUE)

\* Two buckets of one date tie for the maximum and both are flagged, while a
\* bucket of another date is flagged on its own.
C2_Witness ==
    /\ pc = "to_csv"
    /\ \E n, m \in DOMAIN hourly_totals :
          /\ n # m
          /\ hourly_totals[n].date = hourly_totals[m].date
          /\ hourly_totals[n].grid_feedin = hourly_totals[m].grid_feedin
          /\ hourly_totals[n].is_peak_feed_in_hour = Some(TRUE)
          /\ hourly_totals[m].is_peak_feed_in_hour = Some(TRUE)
    /\ \E n, m \in DOMAIN hourly_totals :
          hourly_totals[n].date # hourly_totals[m].date

\* C3: every Hourly Bucket's grid_purchase and grid_feedin totals equal the
\* sums over exactly the Clean Records with the bucket's (date, hour), missing
\* counted as zero, and every distinct (date, hour) key of the Clean Records
\* has exactly one bucket.
C3_HourlySumsPerKey ==
    pc \in Aggregated =>
        /\ \A n \in DOMAIN hourly_totals :
              /\ hourly_totals[n].grid_purchase
                    = Some(SumOver(BucketRows(hourly_totals[n]), "grid_purchase"))
              /\ hourly_totals[n].grid_feedin
                    = Some(SumOver(BucketRows(hourly_totals[n]), "grid_feedin"))
        /\ \A i \in DOMAIN df :
              Cardinality({ n \in DOMAIN hourly_totals :
                              /\ hourly_totals[n].date = df[i].date
                              /\ hourly_totals[n].hour = df[i].hour }) = 1

\* The part of C3 that is about the buckets that exist: their totals are the
\* sums over their records, no bucket is empty and no key has two buckets.
HourlySumsOfBuckets ==
    pc \in Aggregated =>
        \A n \in DOMAIN hourly_totals :
            /\ hourly_totals[n].grid_purchase
                  = Some(SumOver(BucketRows(hourly_totals[n]), "grid_purchase"))
            /\ hourly_totals[n].grid_feedin
                  = Some(SumOver(BucketRows(hourly_totals[n]), "grid_feedin"))
            /\ BucketRows(hourly_totals[n]) # {}
            /\ \A m \in DOMAIN hourly_totals :
                  /\ hourly_totals[m].date = hourly_totals[n].date
                  /\ hourly_totals[m].hour = hourly_totals[n].hour
                  => m = n

\* C4: the Clean Record set contains no two records that agree on every
\* field after normalization (missing equals missing).
C4_NoDuplicates ==
    pc \in Cleaned =>
        \A i, j \in DOMAIN df : SameColumns(df[i], df[j]) => i = j

\* Two input lines that differ as text but normalize to the same record, with
\* another record between them; one copy survives.
C4_Witness ==
    /\ pc = "hour"
    /\ Len(csv) = 3
    /\ csv[1] # csv[3]
    /\ SameColumns(Normalized(csv)[1], Normalized(csv)[3])
    /\ ~SameColumns(Normalized(csv)[1], Normalized(csv)[2])
    /\ Len(df) = 2

\* C5: a deduplicated record is removed by the Cleaner if and only if its
\* three energy fields are all missing; every Clean Record has a non-missing
\* energy field.
C5_AllMissingFilter ==
    pc \in Cleaned =>
        /\ \A i \in DOMAIN df : ~AllEnergyMissing(df[i])
        /\ LET dedup == drop_duplicates(Normalized(csv))
           IN  \A k \in DOMAIN dedup :
                  (\A i \in DOMAIN df : df[i].index # dedup[k].index)
                  <=> AllEnergyMissing(dedup[k])

\* An all-missing record is removed while a record missing one field and a
\* record missing two fields are retained.
C5_Witness ==
    /\ pc = "hour"
    /\ \E k \in DOMAIN csv :
          /\ AllEnergyMissing(Normalized(csv)[k])
          /\ \A i \in DOMAIN df : df[i].index # k - 1
    /\ \E i \in DOMAIN df :
          /\ isna(df[i].direct_consumption)
          /\ ~isna(df[i].grid_purchase)
          /\ ~isna(df[i].grid_feedin)
    /\ \E i \in DOMAIN df :
          /\ isna(df[i].direct_consumption)
          /\ isna(df[i].grid_purchase)
          /\ ~isna(df[i].grid_feedin)

\* C6: the Clean Records are a subsequence of the normalized input (their
\* input positions increase), and the survivor of a set of identical records
\* is the one at the earliest input position.
C6_OrderAndFirstKept ==
    pc \in Cleaned =>
        /\ \A i, j \in DOMAIN df : i < j => df[i].index < df[j].index
        /\ \A i \in DOMAIN df :
              /\ df[i].index + 1 \in DOMAIN csv
              /\ SameColumns(df[i], Normalized(csv)[df[i].index + 1])
              /\ \A j \in 1..df[i].index :
                    ~SameColumns(Normalized(csv)[j], df[i])

\* A record occurs at input positions 1 and 3; the survivor is the one from
\* position 1 and it precedes the survivor from position 2.
C6_Witness ==
    /\ pc = "hour"
    /\ Len(csv) = 3
    /\ SameColumns(Normalized(csv)[1], Normalized(csv)[3])
    /\ Len(df) = 2
    /\ df[1].index = 0
    /\ df[2].index = 1

\* C7: the Serial Summary rows are sorted non-increasing by grid_purchase
\* total.
C7_SummaryDescending ==
    pc = "to_csv" =>
        \A n \in 1..(Len(summary) - 1) :
            summary[n].grid_purchase[1] >= summary[n + 1].grid_purchase[1]

\* Three serials whose totals are not all equal and whose order by total
\* differs from their order by name.
C7_Witness ==
    /\ pc = "to_csv"
    /\ Len(summary) = 3
    /\ summary[1].grid_purchase[1] > summary[3].grid_purchase[1]
    /\ SerialRank(summary[1].serial[1]) > SerialRank(summary[2].serial[1])

\* C8: applying the Cleaner (deduplication, then the all-missing filter) to
\* its own output returns that output unchanged.
C8_CleanerIdempotent ==
    pc \in Cleaned => dropna(drop_duplicates(df)) = df

\* The Cleaner removed both a duplicate and all-missing records and left a
\* non-empty output.
C8_Witness ==
    /\ pc = "hour"
    /\ Len(df) >= 1
    /\ Len(drop_duplicates(Normalized(csv))) < Len(csv)
    /\ Len(df) < Len(drop_duplicates(Normalized(csv)))

\* C9: normalization yields exactly one candidate per Raw Record, in input
\* order; a cell that parses holds its parsed value, a cell that does not
\* parse holds the missing marker, and the serial is untouched.
C9_NormalizerTolerant ==
    pc = "drop_duplicates" =>
        /\ Len(df) = Len(csv)
        /\ \A i \in DOMAIN csv :
              /\ df[i].index = i - 1
              /\ df[i].serial = read_cell(csv[i].serial)
              /\ df[i].grid_purchase =
                    IF IsFloat(csv[i].grid_purchase)
                    THEN Some(float(csv[i].grid_purchase)) ELSE NaN
              /\ df[i].grid_feedin =
                    IF IsFloat(csv[i].grid_feedin)
                    THEN Some(float(csv[i].grid_feedin)) ELSE NaN
              /\ df[i].direct_consumption =
                    IF IsFloat(csv[i].direct_consumption)
                    THEN Some(float(csv[i].direct_consumption)) ELSE NaN
              /\ df[i].timestamp =
                    IF IsDatetime(csv[i].timestamp)
                    THEN Some(datetime(csv[i].timestamp)) ELSE NaN
              /\ df[i].date =
                    IF IsDatetime(csv[i].date)
                    THEN Some(datetime(csv[i].date).day) ELSE NaN

\* One record has an unparseable numeric cell next to parsed ones, another
\* an unparseable date, another an unparseable timestamp.
C9_Witness ==
    /\ pc = "drop_duplicates"
    /\ \E i \in DOMAIN csv :
          /\ csv[i].direct_consumption = "x"
          /\ df[i].direct_consumption = NaN
          /\ df[i].grid_purchase = Some(1)
          /\ df[i].grid_feedin = Some(2)
    /\ \E i \in DOMAIN csv :
          /\ csv[i].date = "n/a"
          /\ df[i].date = NaN
          /\ df[i].timestamp # NaN
    /\ \E i \in DOMAIN csv :
          /\ csv[i].timestamp = "n/a"
          /\ df[i].timestamp = NaN
          /\ df[i].date # NaN

====
